---- MODULE Spec2Model ----
(***************************************************************************)
(* Model of src/app_realestate.py: the seller-agent matching engine        *)
(* (MLMatchingEngine), the agent generator (AgentGenerator) and the two    *)
(* review queues kept in st.session_state (the seller's agent swipe queue  *)
(* and the agent's lead inbox).                                            *)
(*                                                                         *)
(* Conventions.                                                            *)
(*  - A Python dict is a TLA+ function with a domain of strings; a key the *)
(*    dict does not hold is a string outside its DOMAIN (see Get).         *)
(*  - A rating is a float with one decimal (round(..., 1), line 436); it   *)
(*    is kept in tenths, so 4.5 is 45.                                     *)
(*  - Money is kept in dollars.  The price ratio abs(s - a) / s is compared*)
(*    with 0.1, 0.25 and 0.5 by cross-multiplication; for the integers of  *)
(*    the model the correctly rounded float quotient is on the same side   *)
(*    of each threshold as the exact quotient.                             *)
(***************************************************************************)
EXTENDS Integers, Sequences, FiniteSets, TLC

VARIABLES
    seller,            \* argument of calculate_match_score / rank_agents
    agent,             \* argument of calculate_match_score
    score_out,         \* what calculate_match_score returned or raised
    agents_arg,        \* the caller's list object handed to rank_agents
    rank_out,          \* what rank_agents returned or raised
    seller_profile,    \* st.session_state.seller_profile
    current_matches,   \* st.session_state.current_matches
    swipe_index,       \* st.session_state.swipe_index
    liked_agents,      \* st.session_state.liked_agents
    rejected_agents,   \* st.session_state.rejected_agents
    seller_leads,      \* st.session_state.seller_leads
    lead_index,        \* st.session_state.lead_index
    accepted_sellers,  \* st.session_state.accepted_sellers
    rejected_sellers,  \* st.session_state.rejected_sellers
    runs,              \* counters of the bounded inputs (submits, loads, defers)
    gen_in,            \* arguments of generate_agents_for_location and its random draws
    gen_out,           \* what generate_agents_for_location returned
    est_in,            \* signals and strategy handed to EstimateTechScore
    est_out            \* what EstimateTechScore returned

score_vars == <<seller, agent, score_out>>
rank_vars  == <<agents_arg, rank_out>>
swipe_vars == <<seller_profile, current_matches, swipe_index, liked_agents, rejected_agents>>
inbox_vars == <<seller_leads, lead_index, accepted_sellers, rejected_sellers>>
gen_vars   == <<gen_in, gen_out>>
est_vars   == <<est_in, est_out>>
vars == <<seller, agent, score_out, agents_arg, rank_out,
          seller_profile, current_matches, swipe_index, liked_agents, rejected_agents,
          seller_leads, lead_index, accepted_sellers, rejected_sellers, runs,
          gen_in, gen_out, est_in, est_out>>

----------------------------------------------------------------------------
(* Python helpers *)

\* dict.get(key, default)
Get(d, k, default) == IF k \in DOMAIN d THEN d[k] ELSE default

\* dict.get(key): None when the key is missing
None == "None"

\* x in list
InList(x, list) == \E i \in 1..Len(list) : list[i] = x

\* d[k] = v on a dict: the key is added when missing
SetKey(d, k, v) == [x \in DOMAIN d \cup {k} |-> IF x = k THEN v ELSE d[x]]

\* the dict without key k
DelKey(d, k) == [x \in DOMAIN d \ {k} |-> d[x]]

Abs(x) == IF x < 0 THEN -x ELSE x

Min(a, b) == IF a < b THEN a ELSE b

\* num / den < p / q for den # 0 and q > 0
RatioLess(num, den, p, q) ==
    IF den > 0 THEN num * q < p * den ELSE num * q > p * den

RECURSIVE SumOver(_, _)
\* sum(d.values()) restricted to the keys in S
SumOver(d, S) ==
    IF S = {} THEN 0
    ELSE LET k == CHOOSE x \in S : TRUE IN d[k] + SumOver(d, S \ {k})

SumValues(d) == SumOver(d, DOMAIN d)

----------------------------------------------------------------------------
(* MLMatchingEngine.calculate_match_score *)

FactorNames == {"location", "price_compatibility", "timeline", "communication",
                "experience", "specialization", "personality", "tech_savvy"}

\* 1. Location Match
LocationPoints(s, a) ==
    IF Get(s, "zip_code", None) = Get(a, "zip_code", None) THEN 25
    ELSE IF Get(s, "city", None) = Get(a, "city", None) THEN 20
    ELSE IF Get(s, "state", None) = Get(a, "state", None) THEN 10
    ELSE 0

seller_price(s) == Get(s, "home_value", 500000)
agent_avg_price(a) == Get(a, "avg_sale_price", 500000)

\* the top price bucket awarded the location factor's 25 points
PricePoints_TopAs25(s, a) ==
    LET diff == Abs(seller_price(s) - agent_avg_price(a))
        sp   == seller_price(s)
    IN  IF RatioLess(diff, sp, 1, 10) THEN 25
        ELSE IF RatioLess(diff, sp, 1, 4) THEN 15
        ELSE IF RatioLess(diff, sp, 1, 2) THEN 10
        ELSE 5

\* 2. Price Range Compatibility; evaluated only when seller_price(s) # 0
PricePoints(s, a) ==
    LET diff == Abs(seller_price(s) - agent_avg_price(a))
        sp   == seller_price(s)
    IN  IF RatioLess(diff, sp, 1, 10) THEN 20
        ELSE IF RatioLess(diff, sp, 1, 4) THEN 15
        ELSE IF RatioLess(diff, sp, 1, 2) THEN 10
        ELSE 5

\* the timeline rule with ASAP counted among the near timelines
TimelinePoints_AsapFallsTo12(s, a) ==
    LET seller_timeline == Get(s, "timeline", "3-6 months")
        agent_availability == Get(a, "availability", "immediate")
    IN  IF seller_timeline = "ASAP" /\ agent_availability = "immediate" THEN 15
        ELSE IF seller_timeline \in {"ASAP", "1-3 months", "3-6 months"} THEN 12
        ELSE 8

\* 3. Timeline Match
TimelinePoints(s, a) ==
    LET seller_timeline == Get(s, "timeline", "3-6 months")
        agent_availability == Get(a, "availability", "immediate")
    IN  IF seller_timeline = "ASAP" /\ agent_availability = "immediate" THEN 15
        ELSE IF seller_timeline \in {"1-3 months", "3-6 months"} THEN 12
        ELSE 8

\* 4. Communication Preferences
CommunicationPoints(s, a) ==
    LET seller_comm == Get(s, "communication_preference", "balanced")
        agent_style == Get(a, "communication_style", "balanced")
    IN  IF seller_comm = agent_style THEN 10
        ELSE IF seller_comm = "frequent" /\ agent_style \in {"frequent", "balanced"} THEN 8
        ELSE 5

\* the experience rule with its top branch at more than 10 years
ExperiencePoints_TopAbove10(s, a) ==
    IF Get(s, "first_time_seller", FALSE)
    THEN IF Get(a, "years_experience", 5) > 10 THEN 10
         ELSE IF Get(a, "years_experience", 5) > 3 THEN 7
         ELSE 4
    ELSE 8

\* 5. Experience Level Match
ExperiencePoints(s, a) ==
    IF Get(s, "first_time_seller", FALSE)
    THEN IF Get(a, "years_experience", 5) > 7 THEN 10
         ELSE IF Get(a, "years_experience", 5) > 3 THEN 7
         ELSE 4
    ELSE 8

\* 6. Specialization Match
SpecializationPoints(s, a) ==
    LET seller_property_type == Get(s, "property_type", "Single Family")
        agent_specializations == Get(a, "specializations", <<>>)
    IN  IF InList(seller_property_type, agent_specializations) THEN 10
        ELSE IF InList("All Types", agent_specializations) THEN 7
        ELSE 4

\* the personality rule with nothing awarded for a mismatch
PersonalityPoints_MismatchAs0(s, a) ==
    IF Get(s, "personality", "professional") = Get(a, "personality", "professional")
    THEN 5 ELSE 0

\* 7. Personality Match
PersonalityPoints(s, a) ==
    IF Get(s, "personality", "professional") = Get(a, "personality", "professional")
    THEN 5 ELSE 3

\* 8. Tech Preference Match
TechPoints(s, a) ==
    IF Get(s, "prefers_digital", FALSE)
    THEN IF Get(a, "tech_score", 50) > 70 THEN 5
         ELSE IF Get(a, "tech_score", 50) > 50 THEN 3
         ELSE 1
    ELSE 3

\* the breakdown with the rating and activity bonuses recorded in it
score_breakdown_WithBonus(s, a) ==
    [location            |-> LocationPoints(s, a),
     price_compatibility |-> PricePoints(s, a),
     timeline            |-> TimelinePoints(s, a),
     communication       |-> CommunicationPoints(s, a),
     experience          |-> ExperiencePoints(s, a),
     specialization      |-> SpecializationPoints(s, a),
     personality         |-> PersonalityPoints(s, a),
     tech_savvy          |-> TechPoints(s, a),
     bonus               |-> (IF Get(a, "rating", 0) >= 45 THEN 5 ELSE 0)
                             + (IF Get(a, "recent_sales", 0) > 20 THEN 3 ELSE 0)]

score_breakdown(s, a) ==
    [location            |-> LocationPoints(s, a),
     price_compatibility |-> PricePoints(s, a),
     timeline            |-> TimelinePoints(s, a),
     communication       |-> CommunicationPoints(s, a),
     experience          |-> ExperiencePoints(s, a),
     specialization      |-> SpecializationPoints(s, a),
     personality         |-> PersonalityPoints(s, a),
     tech_savvy          |-> TechPoints(s, a)]

\* "Apply ML-style adjustments": the two bonuses added to the total only
Adjustments(a) ==
    (IF Get(a, "rating", 0) >= 45 THEN 5 ELSE 0)
    + (IF Get(a, "recent_sales", 0) > 20 THEN 3 ELSE 0)

\* the total left as summed
Normalize_NoCap(t) == t

\* "Normalize to 0-100": the code applies an upper bound only
Normalize(t) == Min(100, t)

ZeroDivisionError == [kind |-> "raise", error |-> "ZeroDivisionError"]

\* the division of line 220 raises for seller_price = 0, before any later
\* statement runs
calculate_match_score(s, a) ==
    IF seller_price(s) = 0 THEN ZeroDivisionError
    ELSE LET b == score_breakdown(s, a)
         IN  [kind |-> "return",
              total |-> Normalize(SumValues(b) + Adjustments(a)),
              breakdown |-> b]


----------------------------------------------------------------------------
(* MLMatchingEngine.rank_agents *)

\* agent['match_score'] = score; agent['match_breakdown'] = breakdown
WithScore(s, a) ==
    LET r == calculate_match_score(s, a)
    IN  SetKey(SetKey(a, "match_score", r.total), "match_breakdown", r.breakdown)

\* an unstable descending sort: x goes before the elements of equal key
InsertPos_BeforeEqual(sorted, x) ==
    LET notlarger == {i \in 1..Len(sorted) : sorted[i]["match_score"] <= x["match_score"]}
    IN  IF notlarger = {} THEN Len(sorted) + 1
        ELSE CHOOSE i \in notlarger : \A j \in notlarger : i <= j

\* the place list.sort(key = match_score, reverse = True) gives x among the
\* already ordered elements: after every element whose key is not smaller
\* (the sort is stable, also with reverse = True)
InsertPos(sorted, x) ==
    LET smaller == {i \in 1..Len(sorted) : sorted[i]["match_score"] < x["match_score"]}
    IN  IF smaller = {} THEN Len(sorted) + 1
        ELSE CHOOSE i \in smaller : \A j \in smaller : i <= j

InsertAt(list, pos, x) ==
    SubSeq(list, 1, pos - 1) \o <<x>> \o SubSeq(list, pos, Len(list))

RECURSIVE SortByMatchScore(_)
RECURSIVE SortAscending(_)
\* a stable sort without reverse = True
SortAscending(list) ==
    IF list = <<>> THEN <<>>
    ELSE LET front == SortAscending(SubSeq(list, 1, Len(list) - 1))
             x     == list[Len(list)]
             larger == {i \in 1..Len(front) : front[i]["match_score"] > x["match_score"]}
             pos   == IF larger = {} THEN Len(front) + 1
                      ELSE CHOOSE i \in larger : \A j \in larger : i <= j
         IN  InsertAt(front, pos, x)

\* agents.sort(key=lambda x: x['match_score'], reverse=True)
SortByMatchScore(list) ==
    IF list = <<>> THEN <<>>
    ELSE LET front == SortByMatchScore(SubSeq(list, 1, Len(list) - 1))
             x     == list[Len(list)]
         IN  InsertAt(front, InsertPos(front, x), x)

\* The loop scores the agents in order and the first call that raises ends
\* rank_agents; the price division depends on the seller alone, so it raises
\* at the first agent or never.  The list is sorted in place and returned:
\* the returned list and the caller's list are one object.
rank_agents(s, list) ==
    IF list # <<>> /\ seller_price(s) = 0 THEN ZeroDivisionError
    ELSE [kind |-> "return",
          agents |-> SortByMatchScore([i \in 1..Len(list) |-> WithScore(s, list[i])])]


----------------------------------------------------------------------------
(* Inputs of the scoring checks *)

\* the longest agent list handed to rank_agents in SpecRank
MaxRankLen == 3

BaseSeller ==
    [zip_code |-> "94105", city |-> "San Francisco", state |-> "CA",
     home_value |-> 500000, timeline |-> "ASAP",
     communication_preference |-> "frequent", personality |-> "professional",
     property_type |-> "Multi-family", first_time_seller |-> TRUE,
     prefers_digital |-> TRUE]

\* sellers over every branch the seller's fields select
ProductSellers ==
    {[BaseSeller EXCEPT !.home_value = hv, !.timeline = tl,
                        !.first_time_seller = ft, !.prefers_digital = pd] :
        hv \in {500000}, tl \in {"ASAP", "1-3 months", "6-12 months"},
        ft \in BOOLEAN, pd \in BOOLEAN}

\* sellers with a zero or negative value anchor, with keys missing, with
\* another communication preference, with the form's smallest value, with
\* the property type "Single Family" and with the timeline "Just exploring"
ExtraSellers ==
    {[BaseSeller EXCEPT !.home_value = 0],
     [BaseSeller EXCEPT !.home_value = 0, !.timeline = "6-12 months",
                        !.first_time_seller = FALSE],
     [BaseSeller EXCEPT !.home_value = -500000],
     DelKey(BaseSeller, "home_value"),
     DelKey(DelKey(DelKey(BaseSeller, "zip_code"), "city"), "state"),
     [BaseSeller EXCEPT !.communication_preference = "minimal"],
     [BaseSeller EXCEPT !.property_type = "Single Family Home",
                        !.timeline = "3-6 months", !.home_value = 50000],
     [BaseSeller EXCEPT !.property_type = "Single Family"],
     [BaseSeller EXCEPT !.timeline = "Just exploring"]}

Sellers == ProductSellers \cup ExtraSellers

AgentLocations ==
    {[zip_code |-> "94105", city |-> "San Francisco", state |-> "CA"],
     [zip_code |-> "94110", city |-> "San Francisco", state |-> "CA"],
     [zip_code |-> "90210", city |-> "Beverly Hills", state |-> "CA"],
     [zip_code |-> "10001", city |-> "New York", state |-> "NY"]}

BaseAgent ==
    [zip_code |-> "94105", city |-> "San Francisco", state |-> "CA",
     avg_sale_price |-> 520000, availability |-> "immediate",
     communication_style |-> "frequent", years_experience |-> 9,
     specializations |-> <<"Investment Properties", "Multi-family">>,
     personality |-> "professional", tech_score |-> 80,
     rating |-> 40, recent_sales |-> 10]

\* agents over every branch the agent's fields select; the values sit on
\* both sides of each threshold (years 3/7/8, tech 50/70/71, rating 4.4/4.5,
\* recent sales 20/21, price ratios 0.04/0.1/0.4/2.0 of 500000)
ProductAgents ==
    {[BaseAgent EXCEPT !.zip_code = l.zip_code, !.city = l.city, !.state = l.state,
                       !.avg_sale_price = p, !.availability = av,
                       !.communication_style = cs, !.years_experience = y,
                       !.specializations = sp, !.personality = pe,
                       !.tech_score = t, !.rating = r, !.recent_sales = rs] :
        l \in AgentLocations, p \in {520000, 550000, 700000, 1500000},
        av \in {"immediate", "1 week"}, cs \in {"frequent", "balanced", "minimal"},
        y \in {3, 7, 8},
        sp \in {<<"Investment Properties", "Multi-family">>, <<"All Types">>,
                <<"Luxury Homes", "Waterfront">>},
        pe \in {"professional", "friendly"}, t \in {50, 70, 71},
        r \in {44, 45}, rs \in {20, 21}}

\* agents with the value anchor zero or missing, agents that take the top
\* branch of every factor without a bonus, and the empty record
ExtraAgents ==
    {[BaseAgent EXCEPT !.avg_sale_price = 0],
     DelKey(BaseAgent, "avg_sale_price"),
     [BaseAgent EXCEPT !.avg_sale_price = 500000, !.rating = 50, !.recent_sales = 60],
     BaseAgent,
     [BaseAgent EXCEPT !.specializations = <<"Single Family">>],
     [k \in {} |-> 0]}

Agents == ProductAgents \cup ExtraAgents

NotCalled == [kind |-> "none"]

----------------------------------------------------------------------------
(* The session state of the application *)

InitApp ==
    /\ seller_profile = [k \in {} |-> 0]
    /\ current_matches = <<>>
    /\ swipe_index = 0
    /\ liked_agents = <<>>
    /\ rejected_agents = <<>>
    /\ seller_leads = <<>>
    /\ lead_index = 0
    /\ accepted_sellers = <<>>
    /\ rejected_sellers = <<>>
    /\ runs = [submits |-> 0, loads |-> 0, defers |-> 0]

app_vars == <<seller_profile, current_matches, swipe_index, liked_agents,
              rejected_agents, seller_leads, lead_index, accepted_sellers,
              rejected_sellers, runs>>

----------------------------------------------------------------------------
(* SpecScore: calculate_match_score applied to one seller and one agent *)

InitScore ==
    /\ seller \in Sellers
    /\ agent \in Agents
    /\ score_out = NotCalled
    /\ agents_arg = <<>>
    /\ rank_out = NotCalled
    /\ gen_in = NotCalled
    /\ gen_out = NotCalled
    /\ est_in = NotCalled
    /\ est_out = NotCalled
    /\ InitApp

ScoreCall ==
    /\ score_out = NotCalled
    /\ score_out' = calculate_match_score(seller, agent)
    /\ UNCHANGED <<seller, agent, rank_vars, app_vars, gen_vars, est_vars>>

NextScore == ScoreCall

SpecScore == InitScore /\ [][NextScore]_vars


----------------------------------------------------------------------------
(* SpecRank: rank_agents applied to one seller and a list of agents *)

\* agents whose totals tie (with BaseSeller: 100, 100 by the cap, 98, 98) and
\* differ (93)
RankPool ==
    {BaseAgent,
     [BaseAgent EXCEPT !.rating = 45],
     [BaseAgent EXCEPT !.personality = "friendly"],
     [BaseAgent EXCEPT !.tech_score = 70],
     [BaseAgent EXCEPT !.availability = "1 week"]}

RankSellers ==
    {BaseSeller,
     [BaseSeller EXCEPT !.prefers_digital = FALSE],
     [BaseSeller EXCEPT !.home_value = 0]}

\* the lists of at most MaxRankLen agents; as in the generator (line 427) the
\* agent at position i carries id i
RankLists ==
    UNION {{[i \in 1..n |-> SetKey(f[i], "id", i)] : f \in [1..n -> RankPool]} :
           n \in 0..MaxRankLen}

InitRank ==
    /\ seller \in RankSellers
    /\ agent = [k \in {} |-> 0]
    /\ score_out = NotCalled
    /\ agents_arg \in RankLists
    /\ rank_out = NotCalled
    /\ gen_in = NotCalled
    /\ gen_out = NotCalled
    /\ est_in = NotCalled
    /\ est_out = NotCalled
    /\ InitApp

\* rank_agents sorts the caller's list in place and returns that same list
RankCall ==
    /\ rank_out = NotCalled
    /\ rank_out' = rank_agents(seller, agents_arg)
    /\ agents_arg' = IF rank_out'.kind = "return" THEN rank_out'.agents ELSE agents_arg
    /\ UNCHANGED <<seller, agent, score_out, app_vars, gen_vars, est_vars>>

NextRank == RankCall

SpecRank == InitRank /\ [][NextRank]_vars


----------------------------------------------------------------------------
(* AgentGenerator.generate_agents_for_location *)

brokerages_by_state(state) ==
    IF state = "CA" THEN <<"Compass", "Coldwell Banker", "Keller Williams", "RE/MAX",
                           "Sotheby's", "Berkshire Hathaway">>
    ELSE IF state = "NY" THEN <<"Douglas Elliman", "Compass", "Corcoran",
                                "Brown Harris Stevens", "Halstead">>
    ELSE IF state = "TX" THEN <<"Keller Williams", "RE/MAX", "Century 21",
                                "Berkshire Hathaway", "Compass">>
    ELSE IF state = "FL" THEN <<"Coldwell Banker", "RE/MAX", "Keller Williams",
                                "Compass", "EXP Realty">>
    ELSE <<"RE/MAX", "Century 21", "Keller Williams", "Coldwell Banker">>

\* the area codes with California's in place of the generic fallback
area_codes_NoFallback(state) ==
    IF state = "NY" THEN <<"212", "718", "646", "917", "516", "631">>
    ELSE IF state = "TX" THEN <<"512", "713", "214", "817", "210", "361">>
    ELSE IF state = "FL" THEN <<"305", "786", "954", "561", "407", "813">>
    ELSE <<"415", "510", "650", "408", "925", "707">>

area_codes(state) ==
    IF state = "CA" THEN <<"415", "510", "650", "408", "925", "707">>
    ELSE IF state = "NY" THEN <<"212", "718", "646", "917", "516", "631">>
    ELSE IF state = "TX" THEN <<"512", "713", "214", "817", "210", "361">>
    ELSE IF state = "FL" THEN <<"305", "786", "954", "561", "407", "813">>
    ELSE <<"555">>

property_specializations ==
    {<<"Single Family", "Condos">>, <<"Luxury Homes", "Waterfront">>,
     <<"First-time Buyers", "Condos">>, <<"Investment Properties", "Multi-family">>,
     <<"All Types">>, <<"Senior Living", "Downsizing">>,
     <<"New Construction", "Land">>, <<"Historic Homes", "Unique Properties">>}

personalities == {"professional", "friendly", "analytical", "enthusiastic",
                  "patient", "aggressive"}

comm_styles == {"frequent", "balanced", "minimal", "digital-first", "traditional"}

availabilities == {"immediate", "1 week", "2 weeks", "1 month"}

Between(x, lo, hi) == lo <= x /\ x <= hi

\* "Sales based on experience"
SalesDrawOK(years_exp, recent_sales, avg_sale_price) ==
    IF years_exp < 3
    THEN Between(recent_sales, 3, 12) /\ Between(avg_sale_price, 200000, 500000)
    ELSE IF years_exp < 8
    THEN Between(recent_sales, 10, 25) /\ Between(avg_sale_price, 300000, 700000)
    ELSE IF years_exp < 15
    THEN Between(recent_sales, 15, 40) /\ Between(avg_sale_price, 400000, 900000)
    ELSE Between(recent_sales, 20, 60) /\ Between(avg_sale_price, 350000, 1200000)

\* "Tech score based on age implied by experience"
TechDrawOK(years_exp, tech_draw) ==
    IF years_exp < 5 THEN Between(tech_draw, 65, 95)
    ELSE IF years_exp < 10 THEN Between(tech_draw, 50, 85)
    ELSE IF years_exp < 20 THEN Between(tech_draw, 35, 70)
    ELSE Between(tech_draw, 25, 60)

\* d holds the outcomes of the random calls of one loop iteration; DrawOK says
\* that each lies in the range the code draws it from
DrawOK(state, d) ==
    /\ Between(d.years_exp, 1, 30)
    /\ SalesDrawOK(d.years_exp, d.recent_sales, d.avg_sale_price)
    /\ TechDrawOK(d.years_exp, d.tech_draw)
    /\ InList(d.brokerage, brokerages_by_state(state))
    /\ InList(d.area_code, area_codes(state))
    /\ Between(d.phone_mid, 200, 999) /\ Between(d.phone_end, 1000, 9999)
    /\ Between(d.rating, 35, 50)
    /\ Between(d.review_count, 5, 200)
    /\ d.specializations \in property_specializations
    /\ d.personality \in personalities
    /\ d.communication_style \in comm_styles
    /\ d.availability \in availabilities

\* the brokerage adjustment without its cap
AdjustedTech_NoCap(brokerage, tech_draw) ==
    IF brokerage \in {"Compass", "EXP Realty"} THEN tech_draw + 15
    ELSE tech_draw

\* "Adjust tech score for certain brokerages"
AdjustedTech(brokerage, tech_draw) ==
    IF brokerage \in {"Compass", "EXP Realty"} THEN Min(100, tech_draw + 15)
    ELSE tech_draw

\* brokerage.lower().replace(' ', '').replace("'", ''), as a table over the
\* brokerages of the tables above
email_domain(brokerage) ==
    CASE brokerage = "Compass"              -> "compass"
      [] brokerage = "Coldwell Banker"      -> "coldwellbanker"
      [] brokerage = "Keller Williams"      -> "kellerwilliams"
      [] brokerage = "RE/MAX"               -> "re/max"
      [] brokerage = "Sotheby's"            -> "sothebys"
      [] brokerage = "Berkshire Hathaway"   -> "berkshirehathaway"
      [] brokerage = "Douglas Elliman"      -> "douglaselliman"
      [] brokerage = "Corcoran"             -> "corcoran"
      [] brokerage = "Brown Harris Stevens" -> "brownharrisstevens"
      [] brokerage = "Halstead"             -> "halstead"
      [] brokerage = "Century 21"           -> "century21"
      [] brokerage = "EXP Realty"           -> "exprealty"

\* str.lower() over the names the model draws
Lower(name) ==
    CASE name = "James" -> "james" [] name = "Mary" -> "mary"
      [] name = "Smith" -> "smith" [] name = "Chen" -> "chen"

\* the agent dict with the zip code and the city exchanged
GenerateAgent_SwappedLocation(i, zip_code, city, state, d) ==
    [id |-> i,
     name |-> <<d.first_name, d.last_name>>,
     first_name |-> d.first_name,
     last_name |-> d.last_name,
     brokerage |-> d.brokerage,
     years_experience |-> d.years_exp,
     recent_sales |-> d.recent_sales,
     avg_sale_price |-> d.avg_sale_price,
     rating |-> d.rating,
     review_count |-> d.review_count,
     phone |-> <<d.area_code, d.phone_mid, d.phone_end>>,
     email |-> <<Lower(d.first_name), Lower(d.last_name), email_domain(d.brokerage)>>,
     city |-> zip_code,
     state |-> state,
     zip_code |-> city,
     specializations |-> d.specializations,
     tech_score |-> AdjustedTech(d.brokerage, d.tech_draw),
     personality |-> d.personality,
     communication_style |-> d.communication_style,
     availability |-> d.availability]

\* the dict built at lines 426-449; a formatted string is the tuple of its
\* parts.  languages and total_volume are not read by any handler modelled
\* here and are left out.
GenerateAgent(i, zip_code, city, state, d) ==
    [id |-> i,
     name |-> <<d.first_name, d.last_name>>,
     first_name |-> d.first_name,
     last_name |-> d.last_name,
     brokerage |-> d.brokerage,
     years_experience |-> d.years_exp,
     recent_sales |-> d.recent_sales,
     avg_sale_price |-> d.avg_sale_price,
     rating |-> d.rating,
     review_count |-> d.review_count,
     phone |-> <<d.area_code, d.phone_mid, d.phone_end>>,
     email |-> <<Lower(d.first_name), Lower(d.last_name), email_domain(d.brokerage)>>,
     city |-> city,
     state |-> state,
     zip_code |-> zip_code,
     specializations |-> d.specializations,
     tech_score |-> AdjustedTech(d.brokerage, d.tech_draw),
     personality |-> d.personality,
     communication_style |-> d.communication_style,
     availability |-> d.availability]

\* draws[i] are the random outcomes of iteration i - 1
generate_agents_for_location(zip_code, city, state, count, draws) ==
    [i \in 1..count |-> GenerateAgent(i, zip_code, city, state, draws[i])]


----------------------------------------------------------------------------
(* SpecGen: generate_agents_for_location applied to one location *)

\* the largest count handed to the generator in SpecGen
MaxGenCount == 2

\* locations with a state of the tables and with other state values (a
\* state the tables do not hold, the lower-case form of one they hold, and
\* the empty string)
GenLocations ==
    {[zip_code |-> "94105", city |-> "San Francisco", state |-> "CA"],
     [zip_code |-> "10001", city |-> "New York", state |-> "NY"],
     [zip_code |-> "78701", city |-> "Austin", state |-> "TX"],
     [zip_code |-> "33139", city |-> "Miami Beach", state |-> "FL"],
     [zip_code |-> "98101", city |-> "Seattle", state |-> "WA"],
     [zip_code |-> "94105", city |-> "San Francisco", state |-> "ca"],
     [zip_code |-> "", city |-> "", state |-> ""]}

\* every brokerage and a few area codes of the tables, the generic ones
\* included
DrawBrokerages ==
    {"Compass", "Coldwell Banker", "Keller Williams", "RE/MAX", "Sotheby's",
     "Berkshire Hathaway", "Douglas Elliman", "Corcoran", "Brown Harris Stevens",
     "Halstead", "Century 21", "EXP Realty"}

DrawAreaCodes == {"415", "212", "512", "305", "555"}

\* the outcomes of the random calls of one loop iteration that the model
\* draws from, one per experience band: the tech draw is at the lower or
\* upper end of the band's range, two draws share the name "James Smith" with
\* different phone numbers and two share "Mary Chen" with the same one;
\* DrawOK selects the draws the code can make for a state
DrawBases ==
    {[first_name |-> "James", last_name |-> "Smith", years_exp |-> 9,
      recent_sales |-> 21, avg_sale_price |-> 520000, tech_draw |-> 50,
      phone_mid |-> 200, phone_end |-> 1000, rating |-> 45, review_count |-> 25,
      specializations |-> <<"Investment Properties", "Multi-family">>,
      personality |-> "professional", communication_style |-> "frequent",
      availability |-> "immediate"],
     [first_name |-> "Mary", last_name |-> "Chen", years_exp |-> 2,
      recent_sales |-> 5, avg_sale_price |-> 300000, tech_draw |-> 95,
      phone_mid |-> 999, phone_end |-> 9999, rating |-> 38, review_count |-> 5,
      specializations |-> <<"All Types">>,
      personality |-> "friendly", communication_style |-> "minimal",
      availability |-> "1 week"],
     [first_name |-> "James", last_name |-> "Smith", years_exp |-> 12,
      recent_sales |-> 40, avg_sale_price |-> 900000, tech_draw |-> 70,
      phone_mid |-> 999, phone_end |-> 9999, rating |-> 50, review_count |-> 200,
      specializations |-> <<"Luxury Homes", "Waterfront">>,
      personality |-> "analytical", communication_style |-> "balanced",
      availability |-> "2 weeks"],
     [first_name |-> "Mary", last_name |-> "Chen", years_exp |-> 25,
      recent_sales |-> 60, avg_sale_price |-> 1200000, tech_draw |-> 25,
      phone_mid |-> 999, phone_end |-> 9999, rating |-> 35, review_count |-> 5,
      specializations |-> <<"All Types">>,
      personality |-> "patient", communication_style |-> "traditional",
      availability |-> "1 month"]}

DrawSpace ==
    {[k \in DOMAIN base \cup {"brokerage", "area_code"} |->
         IF k = "brokerage" THEN b ELSE IF k = "area_code" THEN ac ELSE base[k]] :
        base \in DrawBases, b \in DrawBrokerages, ac \in DrawAreaCodes}

\* the sequences of count draws the code can make for a state
GenDraws(state, count) ==
    [1..count -> {d \in DrawSpace : DrawOK(state, d)}]

InitGen ==
    /\ seller = [k \in {} |-> 0]
    /\ agent = [k \in {} |-> 0]
    /\ score_out = NotCalled
    /\ agents_arg = <<>>
    /\ rank_out = NotCalled
    /\ \E l \in GenLocations, count \in 0..MaxGenCount :
          \E draws \in GenDraws(l.state, count) :
             gen_in = [zip_code |-> l.zip_code, city |-> l.city, state |-> l.state,
                       count |-> count, draws |-> draws]
    /\ gen_out = NotCalled
    /\ est_in = NotCalled
    /\ est_out = NotCalled
    /\ InitApp

\* no statement of the generator raises for a string state and a count >= 0
GenerateCall ==
    /\ gen_out = NotCalled
    /\ gen_out' = [kind |-> "return",
                   agents |-> generate_agents_for_location(gen_in.zip_code, gen_in.city,
                                 gen_in.state, gen_in.count, gen_in.draws)]
    /\ UNCHANGED <<gen_in, score_vars, rank_vars, app_vars, est_vars>>

NextGen == GenerateCall

SpecGen == InitGen /\ [][NextGen]_vars


----------------------------------------------------------------------------
(* The tech-adoption estimator.  src/app_realestate.py holds no estimator;   *)
(* the two strategies are modelled from sections 4.2 and 6 of the            *)
(* specification.  A signal that is absent is a key outside the record's     *)
(* DOMAIN.                                                                   *)

\* the configured "major organization" allow-list
MajorOrganizations == {"Compass", "Keller Williams"}

\* the partial-signal strategy with the review bonus from 10 reviews on
PartialSignalScore_ReviewsFrom10(sig) ==
    LET raw == 50
               + (IF "rating" \in DOMAIN sig THEN 10 ELSE 0)
               + (IF "review_count" \in DOMAIN sig /\ sig.review_count >= 10 THEN 10 ELSE 0)
               + (IF "phone" \in DOMAIN sig THEN 5 ELSE 0)
               + (IF "organization" \in DOMAIN sig /\ sig.organization \in MajorOrganizations
                  THEN 10 ELSE 0)
               + (IF "recent_activity" \in DOMAIN sig THEN 10 ELSE 0)
               + (IF Get(sig, "source", "manual") # "manual" THEN 5 ELSE 0)
    IN  IF raw < 0 THEN 0 ELSE Min(100, raw)

\* partial-signal strategy: base 50 and the six increments, clamped
PartialSignalScore(sig) ==
    LET raw == 50
               + (IF "rating" \in DOMAIN sig THEN 10 ELSE 0)
               + (IF "review_count" \in DOMAIN sig /\ sig.review_count > 10 THEN 10 ELSE 0)
               + (IF "phone" \in DOMAIN sig THEN 5 ELSE 0)
               + (IF "organization" \in DOMAIN sig /\ sig.organization \in MajorOrganizations
                  THEN 10 ELSE 0)
               + (IF "recent_activity" \in DOMAIN sig THEN 10 ELSE 0)
               + (IF Get(sig, "source", "manual") # "manual" THEN 5 ELSE 0)
    IN  IF raw < 0 THEN 0 ELSE Min(100, raw)

\* tiered points for the response latency, in hours
LatencyPoints(hours) ==
    IF hours <= 1 THEN 10 ELSE IF hours <= 3 THEN 7 ELSE IF hours <= 6 THEN 4 ELSE 0

\* full-signal strategy; the bounds of the five age brackets are not stated,
\* so the bracket's base score (25 down to 0) is a signal of its own
FullSignalScore(sig) ==
    LET raw == sig.age_base
               + 6 * sig.channels
               + 4 * sig.tools
               + (IF sig.has_site THEN 10 ELSE 0)
               + LatencyPoints(sig.latency_hours)
               + (IF sig.review_count > 20 THEN 5 ELSE 0)
    IN  IF raw < 0 THEN 0 ELSE Min(100, raw)

\* the two strategies are selected by name and never combined
EstimateTechScore(sig, strategy) ==
    IF strategy = "partial" THEN PartialSignalScore(sig) ELSE FullSignalScore(sig)

\* partial signal sets: every signal present or absent, the review count on
\* both sides of its threshold
PartialSignals ==
    {[k \in present |-> full[k]] :
        present \in SUBSET {"rating", "review_count", "phone", "organization",
                            "recent_activity", "source"},
        full \in {[rating |-> 45, review_count |-> rc, phone |-> "(415) 200-1000",
                   organization |-> org, recent_activity |-> 12, source |-> src] :
                  rc \in {10, 11}, org \in {"Compass", "Halstead"},
                  src \in {"manual", "import"}}}

\* full signal sets
FullSignals ==
    {[age_base |-> ab, channels |-> ch, tools |-> tl, has_site |-> hs,
      latency_hours |-> lh, review_count |-> rc] :
        ab \in {0, 25}, ch \in {0, 5}, tl \in {0, 10}, hs \in BOOLEAN,
        lh \in {1, 3, 6, 7}, rc \in {20, 21}}

InitEstimate ==
    /\ seller = [k \in {} |-> 0]
    /\ agent = [k \in {} |-> 0]
    /\ score_out = NotCalled
    /\ agents_arg = <<>>
    /\ rank_out = NotCalled
    /\ gen_in = NotCalled
    /\ gen_out = NotCalled
    /\ \/ \E sig \in PartialSignals : est_in = [signals |-> sig, strategy |-> "partial"]
       \/ \E sig \in FullSignals : est_in = [signals |-> sig, strategy |-> "full"]
    /\ est_out = NotCalled
    /\ InitApp

EstimateCall ==
    /\ est_out = NotCalled
    /\ est_out' = [kind |-> "return",
                   score |-> EstimateTechScore(est_in.signals, est_in.strategy)]
    /\ UNCHANGED <<est_in, score_vars, rank_vars, gen_vars, app_vars>>

NextEstimate == EstimateCall

SpecEstimate == InitEstimate /\ [][NextEstimate]_vars


----------------------------------------------------------------------------
(* The seller flow: profile form, swipe queue *)

\* agents generated per submitted profile (the code asks for 30)
NumAgents == 2

\* profile submissions in one session
MaxSubmits == 2

\* leads per load of the inbox (the code names 10)
NumLeads == 2

\* "Maybe Later" decisions per loaded inbox
MaxDefers == 3

\* the inbox of the deferral scenario: three leads, loaded once, with room
\* for six "Maybe Later" decisions
ScenarioLeads == 3

ScenarioDefers == 6

ScenarioLoads == 1

\* loads of the inbox in one session
MaxLoads == 2

\* the swipe queue of the skip scenario: five agents per submitted profile
SkipAgents == 5

\* profile submissions in the skip scenario
SkipSubmits == 2

\* the identity of a dict object is kept in the record under "oid": two
\* dicts built by different runs are different objects also when every key
\* agrees.  It is not a key of the program's dict.
WithOid(d, oid) == SetKey(d, "oid", oid)

\* obj[k] = v on a dict that lists may share: every list entry that is this
\* object shows the new value
Mutated(list, obj, new) == [i \in 1..Len(list) |-> IF list[i] = obj THEN new ELSE list[i]]

\* communication.split()[0].lower() over the options of the selectbox
CommunicationOf(option) ==
    CASE option = "Frequent updates"       -> "frequent"
      [] option = "Balanced"               -> "balanced"
      [] option = "Only important updates" -> "only"
      [] option = "Minimal contact"        -> "minimal"

\* personality.split()[0].lower() over the options of the selectbox
PersonalityOf(option) ==
    CASE option = "Professional & formal"     -> "professional"
      [] option = "Friendly & casual"         -> "friendly"
      [] option = "Data-driven & analytical"  -> "data-driven"
      [] option = "Enthusiastic & motivating" -> "enthusiastic"
      [] option = "Patient & educational"     -> "patient"

\* property_type.split('/')[0] over the options of the selectbox
PropertyTypeOf(option) ==
    CASE option = "Single Family Home" -> "Single Family Home"
      [] option = "Condo/Townhouse"    -> "Condo"
      [] option = "Multi-family"       -> "Multi-family"
      [] option = "Luxury Property"    -> "Luxury Property"
      [] option = "Land/Lot"           -> "Land"
      [] option = "Commercial"         -> "Commercial"

\* zip_info.get(zip_code, {'city': 'San Francisco', 'state': 'CA'})
zip_info(zip_code) ==
    CASE zip_code = "94105" -> [city |-> "San Francisco", state |-> "CA"]
      [] zip_code = "10001" -> [city |-> "New York", state |-> "NY"]
      [] zip_code = "90210" -> [city |-> "Beverly Hills", state |-> "CA"]
      [] zip_code = "78701" -> [city |-> "Austin", state |-> "TX"]
      [] zip_code = "33139" -> [city |-> "Miami Beach", state |-> "FL"]
      [] OTHER -> [city |-> "San Francisco", state |-> "CA"]

\* the seller_profile dict of lines 635-666, with the keys the engine reads
\* (name, email, phone, bedrooms, bathrooms, condition, special_features,
\* priority_1, priority_2 and wants_open_houses are stored and never read by
\* the engine or the queue)
ProfileOf(form) ==
    [first_time_seller |-> form.first_time = "Yes, first time",
     timeline |-> form.timeline,
     communication_preference |-> CommunicationOf(form.communication),
     personality |-> PersonalityOf(form.personality),
     zip_code |-> form.zip_code,
     property_type |-> PropertyTypeOf(form.property_type),
     home_value |-> form.home_value,
     prefers_digital |-> form.prefers_digital,
     city |-> zip_info(form.zip_code).city,
     state |-> zip_info(form.zip_code).state]

\* "Find My Perfect Agent": lines 633-688; count agents are generated (the
\* code asks for 30), at most maxSubmits times in a session
SubmitProfile(form, draws, count, maxSubmits) ==
    /\ runs.submits < maxSubmits
    /\ LET profile  == ProfileOf(form)
           location == zip_info(form.zip_code)
           agents   == generate_agents_for_location(form.zip_code, location.city,
                                                    location.state, count, draws)
           objects  == [i \in 1..Len(agents) |-> WithOid(agents[i], <<runs.submits + 1, i>>)]
           matched  == rank_agents(profile, objects)
       IN  /\ seller_profile' = profile
           /\ IF matched.kind = "return"
              THEN current_matches' = matched.agents /\ swipe_index' = 0
              ELSE UNCHANGED <<current_matches, swipe_index>>
    /\ runs' = [runs EXCEPT !.submits = @ + 1]
    /\ UNCHANGED <<liked_agents, rejected_agents, inbox_vars, score_vars, rank_vars, gen_vars, est_vars>>

\* the branch of the Match & Swipe tab the script renders (lines 694-828)
SwipeView ==
    IF current_matches = <<>> THEN "warning"
    ELSE IF swipe_index < Len(current_matches) THEN "card"
    ELSE "reviewed_all"

\* The decision buttons exist in the "card" branch only (line 706).  A click
\* that reaches a run whose branch is "reviewed_all" finds no button and the
\* run changes nothing; in the "warning" branch there is no queue.

\* "Pass" that files the agent and leaves the cursor where it is
Pass_NoAdvance ==
    /\ current_matches # <<>>
    /\ IF swipe_index < Len(current_matches)
       THEN rejected_agents' = Append(rejected_agents, current_matches[swipe_index + 1])
       ELSE UNCHANGED rejected_agents
    /\ UNCHANGED <<seller_profile, current_matches, swipe_index, liked_agents, runs,
                   inbox_vars, score_vars, rank_vars, gen_vars, est_vars>>

\* "Pass" that files the agent with the liked ones
Pass_IntoLiked ==
    /\ current_matches # <<>>
    /\ IF swipe_index < Len(current_matches)
       THEN /\ liked_agents' = Append(liked_agents, current_matches[swipe_index + 1])
            /\ swipe_index' = swipe_index + 1
       ELSE UNCHANGED <<liked_agents, swipe_index>>
    /\ UNCHANGED <<seller_profile, current_matches, rejected_agents, runs,
                   inbox_vars, score_vars, rank_vars, gen_vars, est_vars>>

\* "Pass": lines 779-784
Pass ==
    /\ current_matches # <<>>
    /\ IF swipe_index < Len(current_matches)
       THEN /\ rejected_agents' = Append(rejected_agents, current_matches[swipe_index + 1])
            /\ swipe_index' = swipe_index + 1
       ELSE UNCHANGED <<rejected_agents, swipe_index>>
    /\ UNCHANGED <<seller_profile, current_matches, liked_agents, runs,
                   inbox_vars, score_vars, rank_vars, gen_vars, est_vars>>

\* "Super Like" that appends the agent as "Like" does
SuperLike_Appends ==
    /\ current_matches # <<>>
    /\ IF swipe_index < Len(current_matches)
       THEN LET obj == current_matches[swipe_index + 1]
                new == SetKey(obj, "super_liked", TRUE)
            IN  /\ current_matches' = Mutated(current_matches, obj, new)
                /\ rejected_agents' = Mutated(rejected_agents, obj, new)
                /\ liked_agents' = Append(Mutated(liked_agents, obj, new), new)
                /\ swipe_index' = swipe_index + 1
       ELSE UNCHANGED <<current_matches, rejected_agents, liked_agents, swipe_index>>
    /\ UNCHANGED <<seller_profile, runs, inbox_vars, score_vars, rank_vars, gen_vars, est_vars>>

\* "Super Like": lines 786-795; agent['super_liked'] = True changes the dict
\* that current_matches holds too
SuperLike ==
    /\ current_matches # <<>>
    /\ IF swipe_index < Len(current_matches)
       THEN LET obj == current_matches[swipe_index + 1]
                new == SetKey(obj, "super_liked", TRUE)
            IN  /\ current_matches' = Mutated(current_matches, obj, new)
                /\ rejected_agents' = Mutated(rejected_agents, obj, new)
                /\ liked_agents' = <<new>> \o Mutated(liked_agents, obj, new)
                /\ swipe_index' = swipe_index + 1
       ELSE UNCHANGED <<current_matches, rejected_agents, liked_agents, swipe_index>>
    /\ UNCHANGED <<seller_profile, runs, inbox_vars, score_vars, rank_vars, gen_vars, est_vars>>

\* "Like" that advances the cursor whether or not a card is shown
Like_Unguarded ==
    /\ current_matches # <<>>
    /\ liked_agents' = IF swipe_index < Len(current_matches)
                       THEN Append(liked_agents, current_matches[swipe_index + 1])
                       ELSE liked_agents
    /\ swipe_index' = swipe_index + 1
    /\ UNCHANGED <<seller_profile, current_matches, rejected_agents, runs,
                   inbox_vars, score_vars, rank_vars, gen_vars, est_vars>>

\* "Like" that inserts the agent at the head as "Super Like" does
Like_InsertsAtHead ==
    /\ current_matches # <<>>
    /\ IF swipe_index < Len(current_matches)
       THEN /\ liked_agents' = <<current_matches[swipe_index + 1]>> \o liked_agents
            /\ swipe_index' = swipe_index + 1
       ELSE UNCHANGED <<liked_agents, swipe_index>>
    /\ UNCHANGED <<seller_profile, current_matches, rejected_agents, runs,
                   inbox_vars, score_vars, rank_vars, gen_vars, est_vars>>

\* "Like": lines 797-804
Like ==
    /\ current_matches # <<>>
    /\ IF swipe_index < Len(current_matches)
       THEN /\ liked_agents' = Append(liked_agents, current_matches[swipe_index + 1])
            /\ swipe_index' = swipe_index + 1
       ELSE UNCHANGED <<liked_agents, swipe_index>>
    /\ UNCHANGED <<seller_profile, current_matches, rejected_agents, runs,
                   inbox_vars, score_vars, rank_vars, gen_vars, est_vars>>

\* "Skip to Results" that files every skipped agent as passed
SkipToResults_RejectsRest ==
    /\ current_matches # <<>>
    /\ IF swipe_index < Len(current_matches)
       THEN /\ swipe_index' = Len(current_matches)
            /\ rejected_agents' = rejected_agents
                   \o SubSeq(current_matches, swipe_index + 1, Len(current_matches))
       ELSE UNCHANGED <<swipe_index, rejected_agents>>
    /\ UNCHANGED <<seller_profile, current_matches, liked_agents,
                   runs, inbox_vars, score_vars, rank_vars, gen_vars, est_vars>>

\* "Skip to Results": lines 806-809
SkipToResults ==
    /\ current_matches # <<>>
    /\ IF swipe_index < Len(current_matches)
       THEN swipe_index' = Len(current_matches)
       ELSE UNCHANGED swipe_index
    /\ UNCHANGED <<seller_profile, current_matches, liked_agents, rejected_agents,
                   runs, inbox_vars, score_vars, rank_vars, gen_vars, est_vars>>


----------------------------------------------------------------------------
(* The agent inbox: lead queue *)

names == <<"John Smith", "Sarah Johnson", "Mike Chen", "Emily Davis", "Robert Wilson",
           "Jennifer Martinez", "David Brown", "Lisa Anderson", "James Taylor",
           "Maria Garcia">>

\* the lead dict of lines 1595-1616 with the keys the queue handlers use; the
\* randomly drawn keys (property_value, lead_score, ...) are shown on the card
\* and never read by a handler's state change
NewLead(i, load) ==
    WithOid([id |-> i, name |-> names[i], contacted |-> FALSE], <<load, i>>)

\* the branch of the New Leads tab the script renders (lines 1586-1730)
InboxView ==
    IF seller_leads = <<>> THEN "load_button"
    ELSE IF lead_index < Len(seller_leads) THEN "card"
    ELSE "reviewed_all"

\* "Load New Seller Leads": lines 1586-1625; n leads are built (the code
\* builds one per name), at most maxLoads times in a session
LoadNewSellerLeads(n, maxLoads) ==
    /\ seller_leads = <<>>
    /\ runs.loads < maxLoads
    /\ seller_leads' = [i \in 1..n |-> NewLead(i, runs.loads + 1)]
    /\ lead_index' = 0
    /\ runs' = [runs EXCEPT !.loads = @ + 1, !.defers = 0]
    /\ UNCHANGED <<accepted_sellers, rejected_sellers, swipe_vars, score_vars, rank_vars, gen_vars, est_vars>>

\* the inbox's "Pass" that marks the lead and advances without filing it
PassLead_NoAppend ==
    /\ seller_leads # <<>>
    /\ IF lead_index < Len(seller_leads)
       THEN LET obj == seller_leads[lead_index + 1]
                new == SetKey(obj, "status", "rejected")
            IN  /\ seller_leads' = Mutated(seller_leads, obj, new)
                /\ accepted_sellers' = Mutated(accepted_sellers, obj, new)
                /\ rejected_sellers' = Mutated(rejected_sellers, obj, new)
                /\ lead_index' = lead_index + 1
       ELSE UNCHANGED inbox_vars
    /\ UNCHANGED <<runs, swipe_vars, score_vars, rank_vars, gen_vars, est_vars>>

\* "Pass": lines 1699-1704
PassLead ==
    /\ seller_leads # <<>>
    /\ IF lead_index < Len(seller_leads)
       THEN LET obj == seller_leads[lead_index + 1]
                new == SetKey(obj, "status", "rejected")
            IN  /\ seller_leads' = Mutated(seller_leads, obj, new)
                /\ accepted_sellers' = Mutated(accepted_sellers, obj, new)
                /\ rejected_sellers' = Append(Mutated(rejected_sellers, obj, new), new)
                /\ lead_index' = lead_index + 1
       ELSE UNCHANGED inbox_vars
    /\ UNCHANGED <<runs, swipe_vars, score_vars, rank_vars, gen_vars, est_vars>>

\* "Maybe Later" that appends the lead and leaves the cursor where it is
MaybeLater_NoAdvance(maxDefers) ==
    /\ seller_leads # <<>>
    /\ runs.defers < maxDefers
    /\ IF lead_index < Len(seller_leads)
       THEN /\ seller_leads' = Append(seller_leads, seller_leads[lead_index + 1])
            /\ runs' = [runs EXCEPT !.defers = @ + 1]
            /\ UNCHANGED lead_index
       ELSE UNCHANGED <<seller_leads, lead_index, runs>>
    /\ UNCHANGED <<accepted_sellers, rejected_sellers, swipe_vars, score_vars, rank_vars, gen_vars, est_vars>>

\* "Maybe Later" that advances the cursor and appends nothing
MaybeLater_NoAppend(maxDefers) ==
    /\ seller_leads # <<>>
    /\ runs.defers < maxDefers
    /\ IF lead_index < Len(seller_leads)
       THEN /\ lead_index' = lead_index + 1
            /\ runs' = [runs EXCEPT !.defers = @ + 1]
            /\ UNCHANGED seller_leads
       ELSE UNCHANGED <<seller_leads, lead_index, runs>>
    /\ UNCHANGED <<accepted_sellers, rejected_sellers, swipe_vars, score_vars, rank_vars, gen_vars, est_vars>>

\* "Maybe Later": lines 1706-1713; the model stops offering it after
\* maxDefers uses in one loaded inbox
MaybeLater(maxDefers) ==
    /\ seller_leads # <<>>
    /\ runs.defers < maxDefers
    /\ IF lead_index < Len(seller_leads)
       THEN /\ seller_leads' = Append(seller_leads, seller_leads[lead_index + 1])
            /\ lead_index' = lead_index + 1
            /\ runs' = [runs EXCEPT !.defers = @ + 1]
       ELSE UNCHANGED <<seller_leads, lead_index, runs>>
    /\ UNCHANGED <<accepted_sellers, rejected_sellers, swipe_vars, score_vars, rank_vars, gen_vars, est_vars>>

\* "Accept": lines 1715-1724 (accepted_date, the clock's reading, is left out)
AcceptLead ==
    /\ seller_leads # <<>>
    /\ IF lead_index < Len(seller_leads)
       THEN LET obj == seller_leads[lead_index + 1]
                new == SetKey(obj, "status", "accepted")
            IN  /\ seller_leads' = Mutated(seller_leads, obj, new)
                /\ rejected_sellers' = Mutated(rejected_sellers, obj, new)
                /\ accepted_sellers' = Append(Mutated(accepted_sellers, obj, new), new)
                /\ lead_index' = lead_index + 1
       ELSE UNCHANGED inbox_vars
    /\ UNCHANGED <<runs, swipe_vars, score_vars, rank_vars, gen_vars, est_vars>>

\* "Load More Leads" that empties the list and keeps the cursor
LoadMoreLeads_KeepIndex ==
    /\ seller_leads # <<>>
    /\ ~(lead_index < Len(seller_leads))
    /\ seller_leads' = <<>>
    /\ UNCHANGED <<lead_index, accepted_sellers, rejected_sellers, runs, swipe_vars,
                   score_vars, rank_vars, gen_vars, est_vars>>

\* "Load More Leads": lines 1725-1730, rendered in the "reviewed_all" branch
LoadMoreLeads ==
    /\ seller_leads # <<>>
    /\ ~(lead_index < Len(seller_leads))
    /\ seller_leads' = <<>>
    /\ lead_index' = 0
    /\ UNCHANGED <<accepted_sellers, rejected_sellers, runs, swipe_vars, score_vars, rank_vars, gen_vars, est_vars>>

----------------------------------------------------------------------------
(* Inputs of the session *)

\* the form as submitted
SwipeForms ==
    {[first_time |-> "Yes, first time", timeline |-> "ASAP",
      communication |-> "Frequent updates", personality |-> "Professional & formal",
      zip_code |-> "94105", property_type |-> "Multi-family",
      home_value |-> 500000, prefers_digital |-> TRUE]}

Draw1 ==
    [first_name |-> "James", last_name |-> "Smith", years_exp |-> 9,
     recent_sales |-> 21, avg_sale_price |-> 520000, tech_draw |-> 60,
     brokerage |-> "Compass", area_code |-> "415", phone_mid |-> 200,
     phone_end |-> 1000, rating |-> 45, review_count |-> 25,
     specializations |-> <<"Investment Properties", "Multi-family">>,
     personality |-> "professional", communication_style |-> "frequent",
     availability |-> "immediate"]

Draw2 ==
    [first_name |-> "Mary", last_name |-> "Chen", years_exp |-> 2,
     recent_sales |-> 5, avg_sale_price |-> 300000, tech_draw |-> 70,
     brokerage |-> "RE/MAX", area_code |-> "510", phone_mid |-> 999,
     phone_end |-> 9999, rating |-> 38, review_count |-> 5,
     specializations |-> <<"All Types">>,
     personality |-> "friendly", communication_style |-> "minimal",
     availability |-> "1 week"]

\* the draws of one call of the generator: a sequence of count draw records,
\* each within the ranges of the code; the session draws Draw2 and Draw1 in
\* turn, so that ranking reorders the generated list
SessionDraws(state, count) ==
    {ds \in {[i \in 1..count |-> IF i % 2 = 1 THEN Draw2 ELSE Draw1]} :
        \A i \in 1..count : DrawOK(state, ds[i])}

InitSession ==
    /\ seller = [k \in {} |-> 0]
    /\ agent = [k \in {} |-> 0]
    /\ score_out = NotCalled
    /\ agents_arg = <<>>
    /\ rank_out = NotCalled
    /\ gen_in = NotCalled
    /\ gen_out = NotCalled
    /\ est_in = NotCalled
    /\ est_out = NotCalled
    /\ InitApp

SwipeNext ==
    \/ \E form \in SwipeForms :
         \E draws \in SessionDraws(zip_info(form.zip_code).state, NumAgents) :
            SubmitProfile(form, draws, NumAgents, MaxSubmits)
    \/ Pass
    \/ SuperLike
    \/ Like
    \/ SkipToResults

InboxNext ==
    \/ LoadNewSellerLeads(NumLeads, MaxLoads)
    \/ PassLead
    \/ MaybeLater(MaxDefers)
    \/ AcceptLead
    \/ LoadMoreLeads

\* the seller flow alone
SpecSwipe == InitSession /\ [][SwipeNext]_vars

\* the agent inbox alone
SpecInbox == InitSession /\ [][InboxNext]_vars

\* the inbox of the deferral scenario
ScenarioNext ==
    \/ LoadNewSellerLeads(ScenarioLeads, ScenarioLoads)
    \/ PassLead
    \/ MaybeLater(ScenarioDefers)
    \/ AcceptLead
    \/ LoadMoreLeads

SpecDeferScenario == InitSession /\ [][ScenarioNext]_vars

\* the swipe queue of the skip scenario
SkipScenarioNext ==
    \/ \E form \in SwipeForms :
         \E draws \in SessionDraws(zip_info(form.zip_code).state, SkipAgents) :
            SubmitProfile(form, draws, SkipAgents, SkipSubmits)
    \/ Pass
    \/ SuperLike
    \/ Like
    \/ SkipToResults

SpecSkipScenario == InitSession /\ [][SkipScenarioNext]_vars

\* forms with other zip codes: one more of the table, one the table does
\* not hold (its city and state are the default's) and the empty input
ZipForms ==
    SwipeForms \cup
    {[first_time |-> "No, I've sold before", timeline |-> "3-6 months",
      communication |-> "Balanced", personality |-> "Friendly & casual",
      zip_code |-> z, property_type |-> "Condo/Townhouse",
      home_value |-> 50000, prefers_digital |-> FALSE] : z \in {"90210", "12345", ""}}

\* the seller flow with the forms of ZipForms
ZipNext ==
    \/ \E form \in ZipForms :
         \E draws \in SessionDraws(zip_info(form.zip_code).state, NumAgents) :
            SubmitProfile(form, draws, NumAgents, MaxSubmits)
    \/ Pass
    \/ SuperLike
    \/ Like
    \/ SkipToResults

SpecZip == InitSession /\ [][ZipNext]_vars

\* the session: the sidebar radio (line 464) selects the flow whose handlers
\* the script renders, and the user may change it before any click
Next == SwipeNext \/ InboxNext

Spec == InitSession /\ [][Next]_vars


----------------------------------------------------------------------------
(* Claims about the scoring engine *)

Clamp(x, lo, hi) == IF x < lo THEN lo ELSE IF x > hi THEN hi ELSE x

\* the sum of the eight breakdown entries, named one by one
BreakdownSum(b) ==
    b.location + b.price_compatibility + b.timeline + b.communication
    + b.experience + b.specialization + b.personality + b.tech_savvy

\* the bonus: 5 for a rating of at least 4.5, 3 for more than 20 recent sales
Bonus(a) ==
    (IF "rating" \in DOMAIN a /\ a.rating >= 45 THEN 5 ELSE 0)
    + (IF "recent_sales" \in DOMAIN a /\ a.recent_sales > 20 THEN 3 ELSE 0)

\* C1: whenever calculate_match_score returns, its total is
\* clamp(S + B, 0, 100), S the sum of the eight breakdown entries and B the
\* bonus (5 if rating >= 4.5, plus 3 if recent sales > 20), and the total is
\* an integer in [0, 100].
C1_TotalIsClampedSum ==
    score_out.kind = "return" =>
        /\ score_out.total = Clamp(BreakdownSum(score_out.breakdown) + Bonus(agent), 0, 100)
        /\ score_out.total \in 0..100

\* a returned total where the clamp is the active bound: breakdown and
\* bonus add up to more than 100
C1_Witness ==
    /\ score_out.kind = "return"
    /\ BreakdownSum(score_out.breakdown) + Bonus(agent) > 100
    /\ Bonus(agent) = 8
    /\ score_out.total = 100

Allotment ==
    [location |-> 25, price_compatibility |-> 20, timeline |-> 15, communication |-> 10,
     experience |-> 10, specialization |-> 10, personality |-> 5, tech_savvy |-> 5]

\* C2: a returned breakdown has exactly the eight factor entries, each at
\* most its allotment (25, 20, 15, 10, 10, 10, 5, 5), and their sum, before
\* any bonus, lies in [0, 100].
C2_BreakdownWithinAllotments ==
    score_out.kind = "return" =>
        /\ DOMAIN score_out.breakdown = DOMAIN Allotment
        /\ \A f \in DOMAIN Allotment :
              score_out.breakdown[f] \in 0..Allotment[f]
        /\ BreakdownSum(score_out.breakdown) \in 0..100

\* a returned breakdown with every factor at its allotment
C2_Witness ==
    /\ score_out.kind = "return"
    /\ \A f \in DOMAIN Allotment : score_out.breakdown[f] = Allotment[f]

\* the position of the agent with identity id in a list
PosOf(list, id) == CHOOSE i \in 1..Len(list) : list[i].id = id

\* C3: the ranking is stable: two agents with equal totals leave rank_agents
\* in the order in which they entered it.
C3_RankStable ==
    [][(rank_out.kind = "none" /\ rank_out'.kind = "return") =>
         LET in  == agents_arg
             out == rank_out'.agents
         IN  \A i, j \in 1..Len(in) :
                (/\ i < j
                 /\ calculate_match_score(seller, in[i]).total
                      = calculate_match_score(seller, in[j]).total)
                => PosOf(out, in[i].id) < PosOf(out, in[j].id)]_vars

\* a returned ranking that moved an agent forward and holds two agents of
\* equal total next to each other
C3_Witness ==
    /\ rank_out.kind = "return"
    /\ Len(rank_out.agents) = MaxRankLen
    /\ rank_out.agents[1].id # 1
    /\ \E i \in 1..(Len(rank_out.agents) - 1) :
          rank_out.agents[i].match_score = rank_out.agents[i + 1].match_score

\* C4: rank_agents returns a permutation of its input, with totals that
\* never increase from first to last, each agent carrying the total and the
\* breakdown calculate_match_score gives for it.
C4_RankSortedPermutation ==
    [][(rank_out.kind = "none" /\ rank_out'.kind = "return") =>
         LET in  == agents_arg
             out == rank_out'.agents
         IN  /\ Len(out) = Len(in)
             /\ \A i \in 1..Len(in) :
                   Cardinality({k \in 1..Len(out) : out[k].id = in[i].id}) = 1
             /\ \A k \in 1..Len(out) :
                   LET a == in[out[k].id]
                       r == calculate_match_score(seller, a)
                   IN  /\ out[k].match_score = r.total
                       /\ out[k].match_breakdown = r.breakdown
                       /\ DelKey(DelKey(out[k], "match_score"), "match_breakdown") = a
             /\ \A k \in 1..(Len(out) - 1) :
                   out[k].match_score >= out[k + 1].match_score]_vars

\* a returned ranking of full length with three different totals
C4_Witness ==
    /\ rank_out.kind = "return"
    /\ Len(rank_out.agents) = MaxRankLen
    /\ rank_out.agents[1].id = MaxRankLen
    /\ Cardinality({rank_out.agents[k].match_score : k \in 1..Len(rank_out.agents)}) = 3

\* C5: for a seller whose value anchor is 0, and for any value anchor <= 0,
\* calculate_match_score raises nothing and awards price_compatibility = 5.
C5_NonPositiveAnchorWorstBucket ==
    (score_out # NotCalled /\ seller_price(seller) <= 0) =>
        /\ score_out.kind = "return"
        /\ score_out.breakdown.price_compatibility = 5


----------------------------------------------------------------------------
(* Claims about the review queues *)

\* C6: in every reachable state both cursors lie within their lists:
\* 0 <= swipe_index <= len(current_matches) and
\* 0 <= lead_index <= len(seller_leads).
C6_CursorWithinList ==
    /\ swipe_index \in 0..Len(current_matches)
    /\ lead_index \in 0..Len(seller_leads)

\* both queues re-created, the second swipe queue skipped to its end from
\* inside, the second inbox grown by a deferral and at its end
C6_Witness ==
    /\ runs.submits = MaxSubmits
    /\ swipe_index = Len(current_matches)
    /\ Len(liked_agents) + Len(rejected_agents) = 1
    /\ runs.loads = MaxLoads
    /\ Len(seller_leads) > NumLeads
    /\ lead_index = Len(seller_leads)

\* a "Maybe Later" click on a shown card
DeferStep(maxDefers) == lead_index < Len(seller_leads) /\ MaybeLater(maxDefers)

\* C7: "Maybe Later" on a shown card appends the lead at the cursor to the
\* tail of seller_leads (one entry more, the earlier entries as they were),
\* advances the cursor by one and leaves both decision lists alone; and no
\* step of a loaded inbox moves a lead to another position, so the deferred
\* lead is the card shown when the cursor reaches the new tail.
C7_DeferAppendsAndAdvances ==
    [][/\ DeferStep(MaxDefers) =>
            /\ Len(seller_leads') = Len(seller_leads) + 1
            /\ \A i \in 1..Len(seller_leads) : seller_leads'[i] = seller_leads[i]
            /\ seller_leads'[Len(seller_leads')] = seller_leads[lead_index + 1]
            /\ lead_index' = lead_index + 1
            /\ accepted_sellers' = accepted_sellers
            /\ rejected_sellers' = rejected_sellers
       /\ (seller_leads # <<>> /\ seller_leads' # <<>>) =>
            /\ Len(seller_leads') >= Len(seller_leads)
            /\ \A i \in 1..Len(seller_leads) : seller_leads'[i].oid = seller_leads[i].oid
      ]_vars

\* the card shown is a lead that was deferred: the cursor is on an appended
\* entry, the same object as an earlier entry
C7_Witness ==
    /\ lead_index >= NumLeads
    /\ lead_index < Len(seller_leads)
    /\ \E i \in 1..NumLeads : seller_leads[i].oid = seller_leads[lead_index + 1].oid
    /\ Len(accepted_sellers) + Len(rejected_sellers) > 0

\* every lead of the scenario's inbox was deferred when first shown: the
\* entries after the loaded ones repeat them in order
AllDeferredOnce ==
    /\ Len(seller_leads) >= 2 * ScenarioLeads
    /\ \A i \in 1..ScenarioLeads : seller_leads[ScenarioLeads + i].oid = seller_leads[i].oid

\* C8: deferral is bounded: in the three-lead inbox whose leads were all
\* deferred when first shown, the sixth decision ends the queue.
C8_DeferBounded ==
    (AllDeferredOnce /\ lead_index >= 2 * ScenarioLeads) =>
        lead_index = Len(seller_leads)

\* C9: "Maybe Later" on a shown card leaves the distance from the cursor to
\* the end unchanged and positive, and a shown card can always be deferred
\* (in the model: until MaxDefers uses), so deferring every card never ends
\* the queue.
C9_DeferNeverTerminates ==
    /\ [][DeferStep(MaxDefers) =>
            /\ Len(seller_leads') - lead_index' = Len(seller_leads) - lead_index
            /\ lead_index' < Len(seller_leads')]_vars
    /\ []((lead_index < Len(seller_leads) /\ runs.defers < MaxDefers)
            => ENABLED DeferStep(MaxDefers))

\* only "Maybe Later" was chosen, more often than there are leads, and a card
\* is still shown
C9_Witness ==
    /\ runs.loads = 1
    /\ runs.defers = MaxDefers
    /\ lead_index = MaxDefers
    /\ lead_index > NumLeads
    /\ accepted_sellers = <<>> /\ rejected_sellers = <<>>
    /\ lead_index < Len(seller_leads)

SwipeTerminal == current_matches # <<>> /\ swipe_index = Len(current_matches)

InboxTerminal == seller_leads # <<>> /\ lead_index = Len(seller_leads)

\* C10: a decision on a queue that is at its end changes neither the
\* cursor, the list nor the decision lists, and the script shows the
\* "reviewed all" branch.
C10_TerminalDecisionIsNoOp ==
    [][/\ (SwipeTerminal /\ (Pass \/ SuperLike \/ Like \/ SkipToResults)) =>
            /\ UNCHANGED <<current_matches, swipe_index, liked_agents, rejected_agents>>
            /\ SwipeView' = "reviewed_all"
       /\ (InboxTerminal /\ (PassLead \/ MaybeLater(MaxDefers) \/ AcceptLead)) =>
            /\ UNCHANGED <<seller_leads, lead_index, accepted_sellers, rejected_sellers>>
            /\ InboxView' = "reviewed_all"
      ]_vars

\* both queues at their end, after decisions of every kind
C10_Witness ==
    /\ SwipeTerminal /\ InboxTerminal
    /\ liked_agents # <<>> /\ rejected_agents # <<>>
    /\ accepted_sellers # <<>> /\ rejected_sellers # <<>>
    /\ Len(seller_leads) > NumLeads
    /\ runs.defers < MaxDefers

\* the dict objects a list holds
Oids(list) == {list[i].oid : i \in 1..Len(list)}

\* the order of the dict objects in a list
OidSeq(list) == [i \in 1..Len(list) |-> list[i].oid]

\* the agents of any queue that were liked or passed
DecidedAgents == Oids(liked_agents) \cup Oids(rejected_agents)

\* the agents of the current queue in neither decision list
UndecidedAgents == Oids(current_matches) \ DecidedAgents

\* a "Skip to Results" click on a shown card
SkipStep == swipe_index < Len(current_matches) /\ SkipToResults

\* C11: "Skip to Results" sets the cursor to the length of the queue and
\* adds nothing to the liked or passed agents; an agent enters a decision
\* list only as the card at the cursor, and the cursor of a queue never moves
\* back, so the skipped agents stay in neither list; in the scenario's queue
\* with two decisions made before the skip, the undecided agents are exactly
\* those at positions 3 and up and the cursor is the length.
C11_SkipLeavesUndecided ==
    /\ [][SkipStep =>
            /\ swipe_index' = Len(current_matches)
            /\ UNCHANGED <<current_matches, liked_agents, rejected_agents>>
            /\ \A i \in (swipe_index + 1)..Len(current_matches) :
                  current_matches[i].oid \in UndecidedAgents']_vars
    /\ [][/\ \A o \in DecidedAgents' \ DecidedAgents :
                /\ swipe_index < Len(current_matches)
                /\ o = current_matches[swipe_index + 1].oid
           /\ IF OidSeq(current_matches') = OidSeq(current_matches)
              THEN swipe_index' >= swipe_index
              ELSE Oids(current_matches') \cap Oids(current_matches) = {}]_vars
    /\ []((/\ Len(current_matches) = SkipAgents
           /\ swipe_index = SkipAgents
           /\ Cardinality(DecidedAgents \cap Oids(current_matches)) = 2)
          => /\ UndecidedAgents = {current_matches[i].oid : i \in 3..SkipAgents}
             /\ Cardinality(UndecidedAgents) = SkipAgents - 2)

\* the scenario's queue after a like, a pass and a skip
C11_Witness ==
    /\ runs.submits = 1
    /\ Len(current_matches) = SkipAgents
    /\ swipe_index = SkipAgents
    /\ Len(liked_agents) = 1 /\ Len(rejected_agents) = 1
    /\ Cardinality(UndecidedAgents) = SkipAgents - 2

\* a "Like", "Super Like" or "Accept" click on a shown card
LikeStep == swipe_index < Len(current_matches) /\ Like

SuperLikeStep == swipe_index < Len(current_matches) /\ SuperLike

AcceptLeadStep == lead_index < Len(seller_leads) /\ AcceptLead

\* C12: "Like" and the inbox's "Accept" put the card at the cursor at the
\* end of the accepted list, "Super Like" puts it at index 0; each advances
\* the cursor by one, keeps the entries already accepted in their order and
\* leaves the rejected list as it was.  So a "Like" of the first card
\* followed by a "Super Like" of the second gives the list [second, first].
C12_AcceptOrder ==
    /\ [][/\ LikeStep =>
               /\ liked_agents' = Append(liked_agents, current_matches[swipe_index + 1])
               /\ swipe_index' = swipe_index + 1
               /\ rejected_agents' = rejected_agents
          /\ SuperLikeStep =>
               /\ Len(liked_agents') = Len(liked_agents) + 1
               /\ liked_agents'[1].oid = current_matches[swipe_index + 1].oid
               /\ \A i \in 1..Len(liked_agents) : liked_agents'[i + 1] = liked_agents[i]
               /\ swipe_index' = swipe_index + 1
               /\ rejected_agents' = rejected_agents
          /\ AcceptLeadStep =>
               /\ Len(accepted_sellers') = Len(accepted_sellers) + 1
               /\ accepted_sellers'[Len(accepted_sellers')].oid
                     = seller_leads[lead_index + 1].oid
               /\ \A i \in 1..Len(accepted_sellers) :
                     accepted_sellers'[i] = accepted_sellers[i]
               /\ lead_index' = lead_index + 1
               /\ rejected_sellers' = rejected_sellers]_vars
    /\ []((/\ runs.submits = 1
           /\ swipe_index >= 2
           /\ Len(liked_agents) = 2
           /\ InList(current_matches[1], liked_agents)
           /\ "super_liked" \notin DOMAIN current_matches[1]
           /\ "super_liked" \in DOMAIN current_matches[2])
          => liked_agents = <<current_matches[2], current_matches[1]>>)

\* the first card liked, then the second super liked: [second, first]; and
\* a lead accepted after another
C12_Witness ==
    /\ runs.submits = 1
    /\ swipe_index = 2
    /\ Len(liked_agents) = 2
    /\ liked_agents[1].oid = current_matches[2].oid
    /\ liked_agents[2].oid = current_matches[1].oid
    /\ "super_liked" \in DOMAIN liked_agents[1]
    /\ "super_liked" \notin DOMAIN liked_agents[2]
    /\ Len(accepted_sellers) >= 2

\* a "Pass" click on a shown card, in the seller flow and in the inbox
PassStep == swipe_index < Len(current_matches) /\ Pass

PassLeadStep == lead_index < Len(seller_leads) /\ PassLead

\* C13 as stated: "Pass" on a shown card appends the card at the cursor to
\* the end of the rejected list and advances the cursor by one; the accepted
\* list and the iterated list, its length and its contents, are unchanged.
C13_RejectFrame ==
    [][/\ PassStep =>
            /\ rejected_agents' = Append(rejected_agents, current_matches[swipe_index + 1])
            /\ swipe_index' = swipe_index + 1
            /\ liked_agents' = liked_agents
            /\ current_matches' = current_matches
       /\ PassLeadStep =>
            /\ rejected_sellers' = Append(rejected_sellers, seller_leads[lead_index + 1])
            /\ lead_index' = lead_index + 1
            /\ accepted_sellers' = accepted_sellers
            /\ seller_leads' = seller_leads]_vars

\* C13 amended: "Pass" on a shown card appends the card at the cursor to the
\* end of the rejected list and advances the cursor by one; the accepted list
\* is unchanged and the iterated list keeps its length and the order of its
\* entries.  In the seller flow the entries are unchanged too; in the inbox
\* the passed lead's dict, which the list and the rejected list share, gets
\* status = "rejected" and every other entry is unchanged.
C13_RejectFrameAmended ==
    [][/\ PassStep =>
            /\ rejected_agents' = Append(rejected_agents, current_matches[swipe_index + 1])
            /\ swipe_index' = swipe_index + 1
            /\ liked_agents' = liked_agents
            /\ current_matches' = current_matches
       /\ PassLeadStep =>
            LET lead   == seller_leads[lead_index + 1]
                marked == [k \in DOMAIN lead \cup {"status"} |->
                             IF k = "status" THEN "rejected" ELSE lead[k]]
            IN  /\ rejected_sellers' = Append(rejected_sellers, marked)
                /\ lead_index' = lead_index + 1
                /\ accepted_sellers' = accepted_sellers
                /\ Len(seller_leads') = Len(seller_leads)
                /\ \A i \in 1..Len(seller_leads) :
                      seller_leads'[i] = IF seller_leads[i].oid = lead.oid
                                         THEN marked ELSE seller_leads[i]]_vars

\* an agent passed, and a lead that was deferred and then passed: the
\* rejected lead is in the list twice, both entries marked
C13_Witness ==
    /\ rejected_agents # <<>>
    /\ rejected_sellers # <<>>
    /\ \E i, j \in 1..Len(seller_leads) :
          /\ i < j /\ j <= lead_index
          /\ seller_leads[i] = seller_leads[j]
          /\ "status" \in DOMAIN seller_leads[i]
          /\ seller_leads[i].status = "rejected"
          /\ seller_leads[j] = rejected_sellers[Len(rejected_sellers)]

\* C14: when the profile is submitted again or the inbox is reloaded, the
\* queue is replaced as a whole: right after the step the cursor is 0 and the
\* decision lists hold no entry that was decided in the queue before.
C14_RecreationClearsDecisions ==
    [][/\ (runs'.submits # runs.submits) =>
            /\ swipe_index' = 0
            /\ DecidedAgents' \cap Oids(current_matches) = {}
       /\ (seller_leads # <<>> /\ seller_leads' = <<>>) =>
            /\ lead_index' = 0
            /\ (Oids(accepted_sellers') \cup Oids(rejected_sellers'))
                  \cap Oids(seller_leads) = {}
       /\ (runs'.loads # runs.loads) =>
            /\ lead_index' = 0
            /\ \A o \in Oids(accepted_sellers') \cup Oids(rejected_sellers') :
                  o[1] = runs'.loads]_vars

----------------------------------------------------------------------------
(* Further claims about the scoring engine *)

\* C15: for a seller with a timeline and an agent with an availability, the
\* timeline entry is 15 exactly when the timeline is ASAP and the
\* availability is immediate; otherwise 12 exactly when the timeline is
\* 1-3 months or 3-6 months; otherwise 8.  ASAP with an availability other
\* than immediate gives 8.
C15_TimelinePrecedence ==
    (/\ score_out.kind = "return"
     /\ "timeline" \in DOMAIN seller
     /\ "availability" \in DOMAIN agent) =>
        LET t   == score_out.breakdown.timeline
            top == seller.timeline = "ASAP" /\ agent.availability = "immediate"
            mid == seller.timeline \in {"1-3 months", "3-6 months"}
        IN  /\ (t = 15) <=> top
            /\ (t = 12) <=> (~top /\ mid)
            /\ (t = 8) <=> (~top /\ ~mid)
            /\ (seller.timeline = "ASAP" /\ agent.availability # "immediate") => t = 8

\* an ASAP seller scored against an agent available in one week
C15_Witness ==
    /\ score_out.kind = "return"
    /\ "timeline" \in DOMAIN seller /\ seller.timeline = "ASAP"
    /\ "availability" \in DOMAIN agent /\ agent.availability = "1 week"
    /\ score_out.breakdown.timeline = 8

\* the agents that differ from a in rating and recent sales at most
BonusVariants(a) ==
    {SetKey(SetKey(a, "rating", r), "recent_sales", rs) :
        r \in {44, 45}, rs \in {20, 21}}
    \cup {DelKey(DelKey(a, "rating"), "recent_sales")}

\* C16: the bonuses are not recorded in the breakdown: the breakdown has the
\* eight factor entries and no other, every agent that differs from the
\* scored one in rating and recent sales only gets the same breakdown, and
\* the bonus (as far as the cap at 100 leaves room) is the difference of
\* total and breakdown sum.
C16_BonusNotInBreakdown ==
    score_out.kind = "return" =>
        /\ DOMAIN score_out.breakdown = FactorNames
        /\ \A other \in BonusVariants(agent) :
              LET res == calculate_match_score(seller, other)
                  sum == BreakdownSum(res.breakdown)
              IN  /\ res.breakdown = score_out.breakdown
                  /\ res.total - sum = Min(Bonus(other), 100 - sum)

\* a returned score whose total exceeds the breakdown sum by both bonuses
C16_Witness ==
    /\ score_out.kind = "return"
    /\ Bonus(agent) = 8
    /\ score_out.total = BreakdownSum(score_out.breakdown) + 8
    /\ score_out.total < 100

\* the pair takes the top branch of each of the eight factors
TopBranches(s, a) ==
    /\ {"zip_code", "home_value", "timeline", "communication_preference",
         "first_time_seller", "property_type", "personality", "prefers_digital"}
          \subseteq DOMAIN s
    /\ {"zip_code", "avg_sale_price", "availability", "communication_style",
         "years_experience", "specializations", "personality", "tech_score"}
          \subseteq DOMAIN a
    /\ s.zip_code = a.zip_code
    /\ s.home_value > 0
    /\ 10 * Abs(s.home_value - a.avg_sale_price) < s.home_value
    /\ s.timeline = "ASAP" /\ a.availability = "immediate"
    /\ s.communication_preference = a.communication_style
    /\ s.first_time_seller /\ a.years_experience > 7
    /\ \E i \in 1..Len(a.specializations) : a.specializations[i] = s.property_type
    /\ s.personality = a.personality
    /\ s.prefers_digital /\ a.tech_score > 70

\* C17: a pair that takes the top branch of all eight factors gets a
\* breakdown that sums to 100 and the total 100, with or without a bonus.
C17_PerfectMatchIs100 ==
    (score_out # NotCalled /\ TopBranches(seller, agent)) =>
        /\ score_out.kind = "return"
        /\ BreakdownSum(score_out.breakdown) = 100
        /\ score_out.total = 100

\* the perfect match without a bonus: the "Single Family" seller and the
\* agent with that specialization, 9 years, tech score 80, rating 4.0 and
\* 10 recent sales
C17_Witness ==
    /\ score_out.kind = "return"
    /\ TopBranches(seller, agent)
    /\ seller.property_type = "Single Family"
    /\ agent.specializations = <<"Single Family">>
    /\ agent.rating = 40 /\ agent.recent_sales = 10
    /\ score_out.total = 100

\* C19: for an agent whose value anchor is zero or absent and a seller
\* whose value anchor is positive, calculate_match_score raises nothing and
\* awards price_compatibility = 5.
C19_CandidateAnchorZeroOrAbsent ==
    (/\ score_out # NotCalled
     /\ "home_value" \in DOMAIN seller /\ seller.home_value > 0
     /\ ("avg_sale_price" \notin DOMAIN agent \/ agent.avg_sale_price = 0)) =>
        /\ score_out.kind = "return"
        /\ score_out.breakdown.price_compatibility = 5

----------------------------------------------------------------------------
(* Claims about the generator *)

KnownStates == {"CA", "NY", "TX", "FL"}

\* the brokerages the generator may name for a state, written out
OrganizationsFor(state) ==
    CASE state = "CA" -> {"Compass", "Coldwell Banker", "Keller Williams", "RE/MAX",
                          "Sotheby's", "Berkshire Hathaway"}
      [] state = "NY" -> {"Douglas Elliman", "Compass", "Corcoran",
                          "Brown Harris Stevens", "Halstead"}
      [] state = "TX" -> {"Keller Williams", "RE/MAX", "Century 21",
                          "Berkshire Hathaway", "Compass"}
      [] state = "FL" -> {"Coldwell Banker", "RE/MAX", "Keller Williams", "Compass",
                          "EXP Realty"}
      [] OTHER -> {"RE/MAX", "Century 21", "Keller Williams", "Coldwell Banker"}

\* the area codes the generator may use for a state, written out
AreaCodesFor(state) ==
    CASE state = "CA" -> {"415", "510", "650", "408", "925", "707"}
      [] state = "NY" -> {"212", "718", "646", "917", "516", "631"}
      [] state = "TX" -> {"512", "713", "214", "817", "210", "361"}
      [] state = "FL" -> {"305", "786", "954", "561", "407", "813"}
      [] OTHER -> {"555"}

\* C20: the generator returns, for a state outside its tables too, exactly
\* count agents; for such a state every brokerage is one of the four
\* generic ones and every phone has the area code 555; for a state of the
\* tables every brokerage and area code is one of that state's.
C20_GeneratorFallback ==
    gen_out # NotCalled =>
        /\ gen_out.kind = "return"
        /\ Len(gen_out.agents) = gen_in.count
        /\ \A i \in 1..Len(gen_out.agents) :
              LET a == gen_out.agents[i]
              IN  /\ a.brokerage \in OrganizationsFor(gen_in.state)
                  /\ a.phone[1] \in AreaCodesFor(gen_in.state)
                  /\ gen_in.state \notin KnownStates =>
                        /\ a.brokerage \in {"RE/MAX", "Century 21", "Keller Williams",
                                            "Coldwell Banker"}
                        /\ a.phone[1] = "555"

\* the generator returned the full count for a state outside the tables,
\* with two different generic brokerages
C20_Witness ==
    /\ gen_out.kind = "return"
    /\ gen_in.state \notin KnownStates
    /\ gen_in.count = MaxGenCount
    /\ Len(gen_out.agents) = MaxGenCount
    /\ gen_out.agents[1].brokerage # gen_out.agents[2].brokerage
    /\ gen_out.agents[1].phone[1] = "555"

\* the range the code draws the tech score from for an experience
TechBandMin(years) ==
    IF years < 5 THEN 65 ELSE IF years < 10 THEN 50 ELSE IF years < 20 THEN 35 ELSE 25

TechBandMax(years) ==
    IF years < 5 THEN 95 ELSE IF years < 10 THEN 85 ELSE IF years < 20 THEN 70 ELSE 60

TechForward == {"Compass", "EXP Realty"}

\* C21: every generated agent's tech_score is an integer in [0, 100]: the
\* draw from the range of its experience band, plus 15 for a brokerage of
\* the tech-forward list, capped at 100; an agent of such a brokerage has at
\* least the band's minimum plus 15.
C21_TechScoreRange ==
    gen_out.kind = "return" =>
        \A i \in 1..Len(gen_out.agents) :
            LET a    == gen_out.agents[i]
                draw == gen_in.draws[i].tech_draw
                lo   == TechBandMin(a.years_experience)
                hi   == TechBandMax(a.years_experience)
            IN  /\ a.tech_score \in 0..100
                /\ draw \in lo..hi
                /\ a.tech_score = IF a.brokerage \in TechForward
                                  THEN (IF draw + 15 > 100 THEN 100 ELSE draw + 15)
                                  ELSE draw
                /\ a.brokerage \in TechForward => a.tech_score >= lo + 15

\* a batch with a tech-forward agent at the cap (95 + 15) and one at its
\* band's minimum plus 15
C21_Witness ==
    /\ gen_out.kind = "return"
    /\ Len(gen_out.agents) = MaxGenCount
    /\ \E i, j \in 1..Len(gen_out.agents) :
          /\ gen_out.agents[i].brokerage \in TechForward
          /\ gen_in.draws[i].tech_draw = 95
          /\ gen_out.agents[i].tech_score = 100
          /\ gen_out.agents[j].brokerage \in TechForward
          /\ gen_out.agents[j].tech_score = TechBandMin(gen_out.agents[j].years_experience) + 15

\* C22: phone and email of a generated agent are a function of its name and
\* brokerage: two agents of one batch with the same name and the same
\* brokerage have the same email and the same phone.
C22_ContactFieldsDeterministic ==
    gen_out.kind = "return" =>
        \A i, j \in 1..Len(gen_out.agents) :
            LET a == gen_out.agents[i]
                b == gen_out.agents[j]
            IN  (a.name = b.name /\ a.brokerage = b.brokerage) =>
                    /\ a.email = b.email
                    /\ a.phone = b.phone

\* C23: the estimator offers two strategies selected by name; the
\* partial-signal one returns 50, plus 10 for a rating, 10 for more than 10
\* reviews, 5 for a phone, 10 for an organization of the allow-list, 10 for
\* a recent-activity signal and 5 for a source other than manual entry,
\* which is an integer in [50, 100]; the full-signal one returns an integer
\* in [0, 100] from its own signals.
C23_PartialSignalScore ==
    est_out # NotCalled =>
        /\ est_out.kind = "return"
        /\ est_in.strategy \in {"partial", "full"}
        /\ est_out.score \in 0..100
        /\ est_in.strategy = "partial" =>
              LET sig == est_in.signals
                  has(k) == k \in DOMAIN sig
              IN  /\ est_out.score
                       = 50 + (IF has("rating") THEN 10 ELSE 0)
                            + (IF has("review_count") /\ sig.review_count > 10 THEN 10 ELSE 0)
                            + (IF has("phone") THEN 5 ELSE 0)
                            + (IF has("organization")
                                  /\ sig.organization \in {"Compass", "Keller Williams"}
                               THEN 10 ELSE 0)
                            + (IF has("recent_activity") THEN 10 ELSE 0)
                            + (IF has("source") /\ sig.source # "manual" THEN 5 ELSE 0)
                  /\ est_out.score \in 50..100

\* the partial-signal strategy applied to ten reviews and every other
\* signal in favour: 90
C23_Witness ==
    /\ est_out.kind = "return"
    /\ est_in.strategy = "partial"
    /\ DOMAIN est_in.signals = {"rating", "review_count", "phone", "organization",
                                "recent_activity", "source"}
    /\ est_in.signals.review_count = 10
    /\ est_out.score = 90

----------------------------------------------------------------------------
(* Further claims about the review queues *)

\* a.get('super_liked') and its negation, the two filters of lines 837-839
IsSuperLiked(a) == Get(a, "super_liked", FALSE)

IsRegularLiked(a) == ~Get(a, "super_liked", FALSE)

\* the agent is a card of the current queue
InCurrentQueue(a) == a.oid \in Oids(current_matches)

\* the position of an agent of the current queue, by object
QueuePos(a) == CHOOSE i \in 1..Len(current_matches) : current_matches[i].oid = a.oid

\* C24: liked_agents is the super-liked agents, latest decision first,
\* followed by the liked agents, earliest decision first: no super-liked
\* agent sits after a liked one, and the list is the concatenation of its
\* super-liked and its other entries.  The cards of a queue are decided in
\* the order of their positions, and a queue's cards after those of the
\* queues before it.
C24_AcceptedOrdering ==
    /\ liked_agents = SelectSeq(liked_agents, IsSuperLiked)
                        \o SelectSeq(liked_agents, IsRegularLiked)
    /\ \A i, j \in 1..Len(liked_agents) :
          i < j =>
            LET a == liked_agents[i]
                b == liked_agents[j]
            IN  /\ IsSuperLiked(b) => IsSuperLiked(a)
                /\ (IsSuperLiked(a) /\ IsSuperLiked(b)) =>
                      /\ a.oid[1] >= b.oid[1]
                      /\ (InCurrentQueue(a) /\ InCurrentQueue(b)) => QueuePos(a) > QueuePos(b)
                /\ (IsRegularLiked(a) /\ IsRegularLiked(b)) =>
                      /\ a.oid[1] <= b.oid[1]
                      /\ (InCurrentQueue(a) /\ InCurrentQueue(b)) => QueuePos(a) < QueuePos(b)

\* two agents liked in the first queue, two super liked in the second:
\* [second super like, first super like, first like, second like]
C24_Witness ==
    /\ Len(liked_agents) >= 4
    /\ IsSuperLiked(liked_agents[1]) /\ IsSuperLiked(liked_agents[2])
    /\ InCurrentQueue(liked_agents[1]) /\ InCurrentQueue(liked_agents[2])
    /\ QueuePos(liked_agents[1]) = 2 /\ QueuePos(liked_agents[2]) = 1
    /\ IsRegularLiked(liked_agents[3]) /\ IsRegularLiked(liked_agents[4])
    /\ liked_agents[3].oid[1] < liked_agents[1].oid[1]

\* the number of entries of a list that are the dict object o
Occurrences(list, o) == Cardinality({i \in 1..Len(list) : list[i].oid = o})

\* C25: no agent and no lead is in both of its queue's decision lists or
\* twice in one of them, also when a lead was deferred several times and is
\* at several positions of seller_leads.
C25_NoDuplicateDecisions ==
    /\ \A o \in Oids(liked_agents) \cup Oids(rejected_agents) :
          Occurrences(liked_agents, o) + Occurrences(rejected_agents, o) = 1
    /\ \A o \in Oids(accepted_sellers) \cup Oids(rejected_sellers) :
          Occurrences(accepted_sellers, o) + Occurrences(rejected_sellers, o) = 1
    /\ \A o \in Oids(seller_leads) :
          Occurrences(accepted_sellers, o) + Occurrences(rejected_sellers, o) <= 1
    /\ \A o \in Oids(current_matches) :
          Occurrences(liked_agents, o) + Occurrences(rejected_agents, o) <= 1

\* a lead deferred twice and then accepted, at three positions of the
\* list, with the other lead passed and agents decided in the swipe queue
C25_Witness ==
    /\ \E o \in Oids(accepted_sellers) : Occurrences(seller_leads, o) >= 3
    /\ rejected_sellers # <<>>
    /\ lead_index = Len(seller_leads)
    /\ liked_agents # <<>> /\ rejected_agents # <<>>

\* the entries of a decision list that are leads of the inbox as loaded last
DecidedOfLoad(list) == Cardinality({i \in 1..Len(list) : list[i].oid[1] = runs.loads})

\* C26: in a loaded inbox of NumLeads leads the cursor is the number of
\* leads accepted and rejected since the load plus the number of "Maybe
\* Later" decisions, and the length is NumLeads plus that number; so at the
\* end of the queue NumLeads decisions were filed and each loaded lead is in
\* exactly one of the two lists.
C26_InboxCounters ==
    seller_leads # <<>> =>
        /\ lead_index = DecidedOfLoad(accepted_sellers) + DecidedOfLoad(rejected_sellers)
                          + runs.defers
        /\ Len(seller_leads) = NumLeads + runs.defers
        /\ lead_index = Len(seller_leads) =>
              /\ DecidedOfLoad(accepted_sellers) + DecidedOfLoad(rejected_sellers) = NumLeads
              /\ \A i \in 1..NumLeads :
                    Occurrences(accepted_sellers, seller_leads[i].oid)
                    + Occurrences(rejected_sellers, seller_leads[i].oid) = 1

\* the first inbox at its end after deferrals: one lead accepted, one
\* rejected, nothing else in the lists
C26_Witness ==
    /\ runs.loads = 1
    /\ runs.defers >= 2
    /\ lead_index = Len(seller_leads)
    /\ Len(seller_leads) = NumLeads + runs.defers
    /\ accepted_sellers # <<>> /\ rejected_sellers # <<>>
    /\ Len(accepted_sellers) + Len(rejected_sellers) = NumLeads

\* the agents of the current queue that were liked, super liked or passed
DecidedInQueue == Cardinality(Oids(current_matches) \cap DecidedAgents)

\* C27: in the swipe queue each "Pass", "Like" and "Super Like" on a shown
\* card is one decision and raises the cursor by exactly one; the cursor
\* never decreases while the queue is not replaced, and only "Skip to
\* Results" moves it ahead of the number of decisions.  So a queue of n
\* agents is at its end after exactly n decisions without a skip and after
\* at most n with one.
C27_SwipeTerminates ==
    /\ [][/\ (PassStep \/ LikeStep \/ SuperLikeStep) =>
               /\ swipe_index' = swipe_index + 1
               /\ DecidedInQueue' = DecidedInQueue + 1
          /\ (runs'.submits = runs.submits) =>
               /\ swipe_index' >= swipe_index
               /\ ~SkipStep =>
                     swipe_index' - DecidedInQueue' = swipe_index - DecidedInQueue
          /\ SkipStep =>
               /\ swipe_index' = Len(current_matches)
               /\ DecidedInQueue' = DecidedInQueue]_vars
    /\ [](/\ DecidedInQueue <= swipe_index
          /\ swipe_index <= Len(current_matches))

\* the second queue at its end after as many decisions as it has agents
C27_Witness ==
    /\ runs.submits = MaxSubmits
    /\ SwipeTerminal
    /\ DecidedInQueue = Len(current_matches)
    /\ Len(liked_agents) + Len(rejected_agents) > Len(current_matches)

\* the least each factor awards
FactorMinimum ==
    [location |-> 0, price_compatibility |-> 5, timeline |-> 8, communication |-> 5,
     experience |-> 4, specialization |-> 4, personality |-> 3, tech_savvy |-> 1]

\* C28: for a seller with a positive value anchor every factor awards at
\* least its minimum (0, 5, 8, 5, 4, 4, 3, 1), so the breakdown sum is in
\* [30, 100], the total is in [30, 100] and equals the smaller of 100 and
\* sum plus bonus: the lower bound of the clamp is never the active one.
C28_SumAtLeast30 ==
    (/\ score_out # NotCalled
     /\ "home_value" \in DOMAIN seller
     /\ seller.home_value > 0) =>
        /\ score_out.kind = "return"
        /\ \A f \in DOMAIN FactorMinimum : score_out.breakdown[f] >= FactorMinimum[f]
        /\ BreakdownSum(score_out.breakdown) \in 30..100
        /\ score_out.total \in 30..100
        /\ score_out.total =
              (IF BreakdownSum(score_out.breakdown) + Bonus(agent) > 100 THEN 100
               ELSE BreakdownSum(score_out.breakdown) + Bonus(agent))

\* a pair that takes the lowest branch of every factor, without a bonus
C28_Witness ==
    /\ score_out.kind = "return"
    /\ "home_value" \in DOMAIN seller /\ seller.home_value > 0
    /\ score_out.breakdown = FactorMinimum
    /\ Bonus(agent) = 0
    /\ score_out.total = 30

\* C29: in the seller flow every agent of the queue carries the zip code of
\* the submitted profile, so its location entry is 25: the location factor
\* is the same for all agents of a ranking and does not order them.
C29_GeneratedZipIsSellerZip ==
    current_matches # <<>> =>
        \A i \in 1..Len(current_matches) :
            /\ current_matches[i].zip_code = seller_profile.zip_code
            /\ current_matches[i].match_breakdown.location = 25

\* a queue generated for a zip code the table does not hold, ranked into
\* another order than it was generated in, after a queue for another zip
C29_Witness ==
    /\ runs.submits = MaxSubmits
    /\ seller_profile.zip_code = "12345"
    /\ seller_profile.city = "San Francisco"
    /\ Len(current_matches) = NumAgents
    /\ current_matches[1].id # 1
    /\ \E i \in 1..Len(rejected_agents) : rejected_agents[i].zip_code = "90210"

\* C30: rank_agents leaves its arguments as they were: when it returns, the
\* caller's list has the order and the agent dicts have the keys and values
\* they had before the call.
C30_RankLeavesArgumentsUnchanged ==
    [][(rank_out.kind = "none" /\ rank_out'.kind = "return") =>
          agents_arg' = agents_arg]_vars

====
